---- MODULE Spec2Model ----
(***************************************************************************)
(* Model of the crate store interface (librustc/middle/cstore.rs):         *)
(* DepKind and its derived order, validate_crate_name, DummyCrateStore.    *)
(***************************************************************************)
EXTENDS Integers, Sequences, FiniteSets, TLC

(***************************************************************************)
(* Bounds                                                                  *)
(***************************************************************************)
\* longest crate name handed to validate_crate_name
MaxLen == 3
\* number of dependency edges observed per crate
MaxEdges == 3
\* highest CrateNum used as an argument or as a crate of the graph
MaxCrateNum == 2
\* number of calls made on the crate store in one behaviour
MaxCalls == 3
\* number of used crates whose LibSource is examined
MaxUsed == 2
\* compilation units, and items per unit
MaxUnits == 2
MaxItems == 3
\* number of record calls before the report is printed
MaxRecords == 3

(***************************************************************************)
(* DepKind (cstore.rs:67-89)                                               *)
(***************************************************************************)
DepKind == {"UnexportedMacrosOnly", "MacrosOnly", "Implicit", "Explicit"}

\* a declaration order in which Implicit and Explicit are exchanged
DepKindDiscrSwapped(k) ==
    CASE k = "UnexportedMacrosOnly" -> 0
      [] k = "MacrosOnly" -> 1
      [] k = "Explicit" -> 2
      [] k = "Implicit" -> 3

\* the discriminant of a variant: its position in the enum declaration
DepKindDiscr(k) ==
    CASE k = "UnexportedMacrosOnly" -> 0
      [] k = "MacrosOnly" -> 1
      [] k = "Implicit" -> 2
      [] k = "Explicit" -> 3

\* #[derive(PartialOrd, Ord)] on a field-less enum compares discriminants
DepKindCmp(a, b) ==
    IF DepKindDiscr(a) < DepKindDiscr(b) THEN "Less"
    ELSE IF DepKindDiscr(a) = DepKindDiscr(b) THEN "Equal"
    ELSE "Greater"

DepKindLt(a, b) == DepKindCmp(a, b) = "Less"

\* macros_only with Implicit counted among the macro-only kinds
macros_only_with_implicit(k) ==
    CASE k \in {"UnexportedMacrosOnly", "MacrosOnly", "Implicit"} -> TRUE
      [] k \in {"Explicit"} -> FALSE

\* DepKind::macros_only
macros_only(k) ==
    CASE k \in {"UnexportedMacrosOnly", "MacrosOnly"} -> TRUE
      [] k \in {"Implicit", "Explicit"} -> FALSE

\* the kind of a dependency seen through two edges: the greater one under
\* the derived order (Ord::max returns its second argument unless the first
\* compares Greater)
CombineDepKind(a, b) ==
    IF DepKindCmp(a, b) = "Greater" THEN a ELSE b

CrateNums == 1..MaxCrateNum

(***************************************************************************)
(* validate_crate_name (cstore.rs:302-326)                                 *)
(***************************************************************************)
\* characters are Unicode scalar values:
\* 'a' = 97, '7' = 55, '_' = 95, '-' = 45, ' ' = 32, U+00E9 = 233 (e acute)
Chars == {97, 55, 95, 45, 32, 233}

\* char::is_alphabetic: the ASCII letters, and above U+007F the characters
\* with the Unicode Alphabetic property (of Chars: U+00E9)
is_alphabetic(c) ==
    \/ (97 <= c /\ c <= 122)
    \/ (65 <= c /\ c <= 90)
    \/ (c > 127 /\ c \in {233})

\* char::is_numeric: the ASCII digits, and above U+007F the characters of the
\* general categories Nd, Nl, No (none of Chars)
is_numeric(c) ==
    \/ (48 <= c /\ c <= 57)
    \/ (c > 127 /\ c \in {})

\* char::is_alphanumeric
is_alphanumeric(c) == is_alphabetic(c) \/ is_numeric(c)

\* the loop's test without the underscore exemption
NameCharOkNoUnderscore(c) == is_alphanumeric(c)

\* the two `continue` tests of the loop body: the character raises no error
NameCharOk(c) == is_alphanumeric(c) \/ c = 95

\* all names of at most n characters
RECURSIVE NamesUpTo(_)
NamesUpTo(n) ==
    IF n = 0 THEN {<<>>}
    ELSE LET shorter == NamesUpTo(n - 1)
         IN shorter \cup {Append(w, c) : w \in {x \in shorter : Len(x) = n - 1}, c \in Chars}

Names == NamesUpTo(MaxLen)

\* Option<&Session> and Option<Span>
SessOpts == {"None", "Some"}
SpanOpts == {"None", "sp1", "sp2"}

EmptyMsg == [text |-> "crate name must not be empty", c |-> 0, s |-> <<>>]
InvalidCharMsg(c, name) ==
    [text |-> "invalid character {} in crate name: {}", c |-> c, s |-> name]
NoMsg == [text |-> "", c |-> 0, s |-> <<>>]

(***************************************************************************)
(* DummyCrateStore (cstore.rs:328-434)                                     *)
(***************************************************************************)
\* how a query ends: an ordinary value, or the panic raised by bug!(msg)
Bug(msg) == [kind |-> "bug", val |-> msg]
EmptyVec == [kind |-> "ok", val |-> "vec![]"]
False == [kind |-> "ok", val |-> "false"]
NoneVal == [kind |-> "ok", val |-> "None"]

\* mutated bodies of single methods
crate_hash_answers(cnum) == [kind |-> "ok", val |-> "Svh"]
implementations_of_trait_unfiltered_only(filter) ==
    IF filter[1] = "None" THEN EmptyVec ELSE Bug("implementations_of_trait")
used_crates_dynamic_only(prefer) ==
    IF prefer[1] = "RequireDynamic" THEN EmptyVec ELSE Bug("used_crates")
extern_mod_stmt_cnum_bug(emod_id) == Bug("extern_mod_stmt_cnum")
metadata_encoding_version_header == [kind |-> "ok", val |-> "rust"]

\* impl CrateStore for DummyCrateStore, one definition per method; an
\* argument is passed as a tuple and no method reads it
crate_data_as_rc_any(krate) == Bug("crate_data_as_rc_any")
visibility(def) == Bug("visibility")
visible_parent_map(session) == Bug("visible_parent_map")
item_generics_cloned(def) == Bug("item_generics_cloned")
implementations_of_trait(filter) == EmptyVec
impl_defaultness(def) == Bug("impl_defaultness")
associated_item_cloned(def) == Bug("associated_item_cloned")
is_dllimport_foreign_item(id) == False
is_statically_included_foreign_item(def_id) == False
lang_items(cnum) == Bug("lang_items")
missing_lang_items(cnum) == Bug("missing_lang_items")
dep_kind(cnum) == Bug("is_explicitly_linked")
export_macros(cnum) == Bug("export_macros")
is_compiler_builtins(cnum) == Bug("is_compiler_builtins")
is_profiler_runtime(cnum) == Bug("is_profiler_runtime")
is_sanitizer_runtime(cnum) == Bug("is_sanitizer_runtime")
panic_strategy(cnum) == Bug("panic_strategy")
crate_name(cnum) == Bug("crate_name")
original_crate_name(cnum) == Bug("original_crate_name")
crate_hash(cnum) == Bug("crate_hash")
crate_disambiguator(cnum) == Bug("crate_disambiguator")
plugin_registrar_fn(cnum) == Bug("plugin_registrar_fn")
derive_registrar_fn(cnum) == Bug("derive_registrar_fn")
native_libraries(cnum) == Bug("native_libraries")
exported_symbols(cnum) == Bug("exported_symbols")
is_no_builtins(cnum) == Bug("is_no_builtins")
def_key(def) == Bug("def_key")
def_path(def) == Bug("relative_def_path")
def_path_hash(def) == Bug("def_path_hash")
def_path_table(cnum) == Bug("def_path_table")
struct_field_names(def) == Bug("struct_field_names")
item_children(did) == Bug("item_children")
load_macro(did) == Bug("load_macro")
item_body(def) == Bug("item_body")
crates == EmptyVec
used_libraries == EmptyVec
used_link_args == EmptyVec
used_crates(prefer) == EmptyVec
used_crate_source(cnum) == Bug("used_crate_source")
extern_mod_stmt_cnum(emod_id) == NoneVal
encode_metadata == Bug("encode_metadata")
metadata_encoding_version == Bug("metadata_encoding_version")
metadata_loader == Bug("metadata_loader")

\* dynamic dispatch on the method name
DummyCrateStore(q, a) ==
    CASE q = "crate_data_as_rc_any" -> crate_data_as_rc_any(a)
      [] q = "visibility" -> visibility(a)
      [] q = "visible_parent_map" -> visible_parent_map(a)
      [] q = "item_generics_cloned" -> item_generics_cloned(a)
      [] q = "implementations_of_trait" -> implementations_of_trait(a)
      [] q = "impl_defaultness" -> impl_defaultness(a)
      [] q = "associated_item_cloned" -> associated_item_cloned(a)
      [] q = "is_dllimport_foreign_item" -> is_dllimport_foreign_item(a)
      [] q = "is_statically_included_foreign_item" -> is_statically_included_foreign_item(a)
      [] q = "lang_items" -> lang_items(a)
      [] q = "missing_lang_items" -> missing_lang_items(a)
      [] q = "dep_kind" -> dep_kind(a)
      [] q = "export_macros" -> export_macros(a)
      [] q = "is_compiler_builtins" -> is_compiler_builtins(a)
      [] q = "is_profiler_runtime" -> is_profiler_runtime(a)
      [] q = "is_sanitizer_runtime" -> is_sanitizer_runtime(a)
      [] q = "panic_strategy" -> panic_strategy(a)
      [] q = "crate_name" -> crate_name(a)
      [] q = "original_crate_name" -> original_crate_name(a)
      [] q = "crate_hash" -> crate_hash(a)
      [] q = "crate_disambiguator" -> crate_disambiguator(a)
      [] q = "plugin_registrar_fn" -> plugin_registrar_fn(a)
      [] q = "derive_registrar_fn" -> derive_registrar_fn(a)
      [] q = "native_libraries" -> native_libraries(a)
      [] q = "exported_symbols" -> exported_symbols(a)
      [] q = "is_no_builtins" -> is_no_builtins(a)
      [] q = "def_key" -> def_key(a)
      [] q = "def_path" -> def_path(a)
      [] q = "def_path_hash" -> def_path_hash(a)
      [] q = "def_path_table" -> def_path_table(a)
      [] q = "struct_field_names" -> struct_field_names(a)
      [] q = "item_children" -> item_children(a)
      [] q = "load_macro" -> load_macro(a)
      [] q = "item_body" -> item_body(a)
      [] q = "crates" -> crates
      [] q = "used_libraries" -> used_libraries
      [] q = "used_link_args" -> used_link_args
      [] q = "used_crates" -> used_crates(a)
      [] q = "used_crate_source" -> used_crate_source(a)
      [] q = "extern_mod_stmt_cnum" -> extern_mod_stmt_cnum(a)
      [] q = "encode_metadata" -> encode_metadata
      [] q = "metadata_encoding_version" -> metadata_encoding_version
      [] q = "metadata_loader" -> metadata_loader

\* the methods grouped by the type of their argument
CrateNumQueries ==
    {"crate_data_as_rc_any", "lang_items", "missing_lang_items",
     "dep_kind", "export_macros", "is_compiler_builtins",
     "is_profiler_runtime", "is_sanitizer_runtime", "panic_strategy",
     "crate_name", "original_crate_name", "crate_hash",
     "crate_disambiguator", "plugin_registrar_fn", "derive_registrar_fn",
     "native_libraries", "exported_symbols", "is_no_builtins",
     "def_path_table", "used_crate_source"}
DefIdQueries ==
    {"visibility", "item_generics_cloned", "impl_defaultness",
     "associated_item_cloned", "is_dllimport_foreign_item",
     "is_statically_included_foreign_item", "def_key", "def_path",
     "def_path_hash", "struct_field_names", "item_children", "load_macro",
     "item_body"}
OptDefIdQueries ==
    {"implementations_of_trait"}
PreferenceQueries ==
    {"used_crates"}
NodeIdQueries ==
    {"extern_mod_stmt_cnum"}
SessionQueries ==
    {"visible_parent_map"}
PlainQueries ==
    {"crates", "used_libraries", "used_link_args", "encode_metadata",
     "metadata_encoding_version", "metadata_loader"}

Queries ==
    CrateNumQueries \cup DefIdQueries \cup OptDefIdQueries \cup PreferenceQueries
    \cup NodeIdQueries \cup SessionQueries \cup PlainQueries

\* CrateNum arguments: 0 is the local crate, the others name extern crates
CrateNumArgs == {<<c>> : c \in 0..MaxCrateNum}
\* DefId { krate, index }
DefIdArgs == {<<c, i>> : c \in 0..MaxCrateNum, i \in 0..1}
\* Option<DefId>
OptDefIdArgs == {<<"None">>} \cup {<<"Some", d[1], d[2]>> : d \in DefIdArgs}
\* LinkagePreference (cstore.rs:115-119)
LinkagePreference == {"RequireDynamic", "RequireStatic"}
PreferenceArgs == {<<p>> : p \in LinkagePreference}
\* ast::NodeId
NodeIdArgs == {<<n>> : n \in 0..1}

QueryArgs(q) ==
    IF q \in CrateNumQueries THEN CrateNumArgs
    ELSE IF q \in DefIdQueries THEN DefIdArgs
    ELSE IF q \in OptDefIdQueries THEN OptDefIdArgs
    ELSE IF q \in PreferenceQueries THEN PreferenceArgs
    ELSE IF q \in NodeIdQueries THEN NodeIdArgs
    ELSE {<<>>}

NoCall == [query |-> "none", arg |-> <<>>, result |-> [kind |-> "none", val |-> ""]]

(***************************************************************************)
(* CrateSource (cstore.rs:58-65)                                           *)
(***************************************************************************)
PathBufs == {"p1", "p2"}
\* session::search_paths::PathKind, two of its variants
PathKinds == {"Crate", "Dependency"}
\* Option<(PathBuf, PathKind)>
OptPaths == {<<"None">>} \cup {<<"Some", p, k>> : p \in PathBufs, k \in PathKinds}
\* the struct: three public optional fields, any combination is a value
CrateSource == [dylib : OptPaths, rlib : OptPaths, rmeta : OptPaths]
NoCrateSource == [dylib |-> <<"None">>, rlib |-> <<"None">>, rmeta |-> <<"None">>]

(***************************************************************************)
(* LibSource (cstore.rs:91-113)                                            *)
(***************************************************************************)
\* enum LibSource { Some(PathBuf), MetadataOnly, None }
LibSource == {<<"Some", p>> : p \in PathBufs} \cup {<<"MetadataOnly">>, <<"None">>}

\* is_some that only excludes LibSource::None
is_some_unless_none(v) == IF v[1] # "None" THEN "true" ELSE "false"

\* LibSource::is_some
is_some(v) == IF v[1] = "Some" THEN "true" ELSE "false"

\* LibSource::option: Option<PathBuf>, the path cloned out of Some
option(v) ==
    CASE v[1] = "Some" -> <<"Some", v[2]>>
      [] v[1] \in {"MetadataOnly", "None"} -> <<"None">>

\* all sequences of LibSource values of at most n entries
RECURSIVE LibSourcesUpTo(_)
LibSourcesUpTo(n) ==
    IF n = 0 THEN {<<>>}
    ELSE LET shorter == LibSourcesUpTo(n - 1)
         IN shorter \cup {Append(w, v) : w \in {x \in shorter : Len(x) = n - 1},
                                         v \in LibSource}

(***************************************************************************)
(* CrateLoader (cstore.rs:436-439)                                         *)
(***************************************************************************)
Units == 1..MaxUnits

\* the two methods of the trait, seen from the loader: the call is received
process_item(log) == Append(log, "process_item")
postprocess(log) == Append(log, "postprocess")

NumCalls(log, name) == Cardinality({i \in 1..Len(log) : log[i] = name})

(***************************************************************************)
(* StatCollector (mir_stats.rs:30-91)                                      *)
(***************************************************************************)
\* labels passed to record, and node sizes (size_of_val of the node)
Labels == {"Mir", "Statement", "Operand"}
NodeSizes == {1, 2, 3, 1000}
Titles == {"PRE", "POST"}

\* struct NodeData { count, size } as entry().or_insert() creates it
NewNodeData == [count |-> 0, size |-> 0]

\* record_with_size adding the node size to the entry's size
record_with_size_summing(d, label, node_size) ==
    LET entry == IF label \in DOMAIN d THEN d[label] ELSE NewNodeData
    IN [l \in (DOMAIN d) \cup {label} |->
           IF l = label
           THEN [count |-> entry.count + 1, size |-> entry.size + node_size]
           ELSE d[l]]

\* StatCollector::record_with_size on the map d
record_with_size(d, label, node_size) ==
    LET entry == IF label \in DOMAIN d THEN d[label] ELSE NewNodeData
    IN [l \in (DOMAIN d) \cup {label} |->
           IF l = label
           THEN [count |-> entry.count + 1, size |-> node_size]
           ELSE d[l]]

\* the decimal digits of n, most significant first
RECURSIVE Digits(_)
Digits(n) == IF n < 10 THEN <<n>> ELSE Append(Digits(n \div 10), n % 10)

\* format!("{:03}", group)
Pad3(group) == <<group \div 100, (group \div 10) % 10, group % 10>>

\* util::common::to_readable_str: the digits in groups of three, the groups
\* being joined by '_' (the result is the sequence of the groups)
RECURSIVE to_readable_str(_)
to_readable_str(val) ==
    IF val \div 1000 = 0 THEN <<Digits(val % 1000)>>
    ELSE Append(to_readable_str(val \div 1000), Pad3(val % 1000))

\* the sort key that leaves out the count
SortKeySizeOnly(d) == d.size

\* the key of sort_by_key: |&(_, ref d)| d.count * d.size
SortKey(d) == d.count * d.size

\* one step of the stable sort: x goes behind every entry whose key is not
\* greater than its own
InsertByKey(sorted, x, d) ==
    LET k == Cardinality({i \in 1..Len(sorted) : SortKey(d[sorted[i]]) <= SortKey(d[x])})
    IN SubSeq(sorted, 1, k) \o <<x>> \o SubSeq(sorted, k + 1, Len(sorted))

\* stats.sort_by_key(..): a stable sort of the labels in iteration order
RECURSIVE SortByKey(_, _)
SortByKey(labels, d) ==
    IF labels = <<>> THEN <<>>
    ELSE InsertByKey(SortByKey(SubSeq(labels, 1, Len(labels) - 1), d),
                     labels[Len(labels)], d)

\* data.iter().collect(): the entries in some order of the hash map
IterOrders(d) ==
    {f \in [1..Cardinality(DOMAIN d) -> DOMAIN d] :
        \A i, j \in 1..Cardinality(DOMAIN d) : f[i] = f[j] => i = j}

HeaderLine ==
    [kind |-> "header", cols |-> <<"Name", "Accumulated Size", "Count", "Item Size">>]
RuleLine == [kind |-> "rule", cols |-> <<>>]
RowLine(label, d) ==
    [kind |-> "row",
     cols |-> <<label, to_readable_str(d.count * d.size),
                to_readable_str(d.count), to_readable_str(d.size)>>]

\* the lines StatCollector::print writes for the entries taken in order iter
ReportLines(title, iter, d) ==
    LET stats == SortByKey(iter, d)
    IN <<[kind |-> "title", cols |-> <<title>>], HeaderLine, RuleLine>>
       \o [i \in 1..Len(stats) |-> RowLine(stats[i], d[stats[i]])]
       \o <<RuleLine>>

VARIABLES
    depEdges,       \* per crate: the kinds of the edges observed so far
    depKindOf,      \* per crate: the effective kind, "none" before any edge
    lastMacrosOnly, \* per crate: the last macros_only() query and its answer
    pc,             \* position of validate_crate_name
    sess,           \* its argument sess: "None" or "Some"
    s,              \* its argument s
    sp,             \* its argument sp
    idx,            \* position of the `for c in s.chars()` loop (1-based)
    err_count,      \* its local err_count
    sessLog,        \* what the session received, in order
    outcome,        \* how the call ended
    storePrev,      \* the call on the store before the last one
    storeLast,      \* the last call on the store: method, argument, result
    ncalls,         \* number of calls made on the store
    crateSource,    \* the CrateSource value built last
    csMade,         \* whether a CrateSource value was built
    csClone,        \* the last clone taken of crateSource
    libSrcs,        \* the LibSource values of the used crates
    libIsSome,      \* per value: the answer of is_some(), "unset" before
    libOption,      \* per value: the answer of option(), <<"unset">> before
    unitItems,      \* per compilation unit: its number of items, -1 before the walk
    unitPhase,      \* per compilation unit: "new", "walking" or "done"
    loaderLog,      \* per compilation unit: the calls its CrateLoader received
    data,           \* StatCollector.data: label -> NodeData
    recorded,       \* history: the record_with_size calls made, in order
    statIter,       \* the order in which data.iter() yielded the labels
    printed         \* the lines print wrote, <<>> before it ran

depVars == <<depEdges, depKindOf, lastMacrosOnly>>
valVars == <<pc, sess, s, sp, idx, err_count, sessLog, outcome>>

storeVars == <<storePrev, storeLast, ncalls>>
csVars == <<crateSource, csMade, csClone>>

\* the state of the components other than DepKind, the validator and the store
libVars == <<libSrcs, libIsSome, libOption>>
loaderVars == <<unitItems, unitPhase, loaderLog>>
statVars == <<data, recorded, statIter, printed>>
extVars == <<csVars, libVars, loaderVars, statVars>>

vars == <<depEdges, depKindOf, lastMacrosOnly,
          pc, sess, s, sp, idx, err_count, sessLog, outcome,
          storePrev, storeLast, ncalls,
          crateSource, csMade, csClone,
          libSrcs, libIsSome, libOption,
          unitItems, unitPhase, loaderLog,
          data, recorded, statIter, printed>>

NotAsked == [asked |-> FALSE, kind |-> "none", result |-> FALSE]

DepInit ==
    /\ depEdges = [c \in CrateNums |-> <<>>]
    /\ depKindOf = [c \in CrateNums |-> "none"]
    /\ lastMacrosOnly = [c \in CrateNums |-> NotAsked]

ValInit ==
    /\ pc = "idle"
    /\ sess = "None"
    /\ s = <<>>
    /\ sp = "None"
    /\ idx = 1
    /\ err_count = 0
    /\ sessLog = <<>>
    /\ outcome = "none"

\* a dependency edge of kind k to crate c is registered
ObserveEdge(c, k) ==
    /\ Len(depEdges[c]) < MaxEdges
    /\ depEdges' = [depEdges EXCEPT ![c] = Append(@, k)]
    /\ depKindOf' = [depKindOf EXCEPT ![c] =
                        IF @ = "none" THEN k ELSE CombineDepKind(@, k)]
    /\ UNCHANGED lastMacrosOnly
    /\ UNCHANGED <<valVars, storeVars, extVars>>

\* the effective kind of crate c is asked whether it is macros-only
QueryMacrosOnly(c) ==
    /\ depKindOf[c] # "none"
    /\ lastMacrosOnly' = [lastMacrosOnly EXCEPT ![c] =
                             [asked |-> TRUE, kind |-> depKindOf[c],
                              result |-> macros_only(depKindOf[c])]]
    /\ UNCHANGED <<depEdges, depKindOf>>
    /\ UNCHANGED <<valVars, storeVars, extVars>>

DepNext ==
    \/ \E c \in CrateNums, k \in DepKind : ObserveEdge(c, k)
    \/ \E c \in CrateNums : QueryMacrosOnly(c)

\* `say` reporting to the session even when there is none to report to
SayWithoutBug(m, nextPc) ==
    /\ sessLog' = Append(sessLog,
                         [method |-> IF sp # "None" THEN "span_err" ELSE "err",
                          span |-> sp, msg |-> m])
    /\ err_count' = err_count + 1
    /\ pc' = nextPc
    /\ UNCHANGED outcome

\* `say` checking for abort right after each report
SayAbortEarly(m, nextPc) ==
    IF sess = "None"
    THEN /\ outcome' = "bug"
         /\ pc' = "done"
         /\ UNCHANGED <<sessLog, err_count>>
    ELSE /\ sessLog' = sessLog \o
                <<[method |-> IF sp # "None" THEN "span_err" ELSE "err",
                   span |-> sp, msg |-> m],
                  [method |-> "abort_if_errors", span |-> "None", msg |-> NoMsg]>>
         /\ err_count' = err_count + 1
         /\ pc' = "done"
         /\ outcome' = "aborted"

\* the closure `say`: bug! without a session (err_count is not reached),
\* otherwise span_err or err on the session and err_count += 1
Say(m, nextPc) ==
    IF sess = "None"
    THEN /\ outcome' = "bug"
         /\ pc' = "done"
         /\ UNCHANGED <<sessLog, err_count>>
    ELSE /\ sessLog' = Append(sessLog,
                              [method |-> IF sp # "None" THEN "span_err" ELSE "err",
                               span |-> sp, msg |-> m])
         /\ err_count' = err_count + 1
         /\ pc' = nextPc
         /\ UNCHANGED outcome

\* validate_crate_name(sess, s, sp) is entered: let mut err_count = 0
Validate(vsess, name, vsp) ==
    /\ pc = "idle"
    /\ pc' = "check_empty"
    /\ sess' = vsess
    /\ s' = name
    /\ sp' = vsp
    /\ idx' = 1
    /\ err_count' = 0
    /\ sessLog' = <<>>
    /\ outcome' = "running"
    /\ UNCHANGED <<depVars, storeVars, extVars>>

\* if s.is_empty() { say("crate name must not be empty") }
CheckEmpty ==
    /\ pc = "check_empty"
    /\ IF s = <<>>
       THEN Say(EmptyMsg, "scan")
       ELSE /\ pc' = "scan"
            /\ UNCHANGED <<sessLog, err_count, outcome>>
    /\ UNCHANGED <<sess, s, sp, idx>>
    /\ UNCHANGED <<depVars, storeVars, extVars>>

\* one iteration of `for c in s.chars()`
ScanChar ==
    /\ pc = "scan"
    /\ idx <= Len(s)
    /\ IF NameCharOk(s[idx])
       THEN UNCHANGED <<pc, sessLog, err_count, outcome>>
       ELSE Say(InvalidCharMsg(s[idx], s), "scan")
    /\ idx' = idx + 1
    /\ UNCHANGED <<sess, s, sp>>
    /\ UNCHANGED <<depVars, storeVars, extVars>>

\* the loop is exhausted
ScanEnd ==
    /\ pc = "scan"
    /\ idx > Len(s)
    /\ pc' = "check_abort"
    /\ UNCHANGED <<sess, s, sp, idx, err_count, sessLog, outcome>>
    /\ UNCHANGED <<depVars, storeVars, extVars>>

\* if err_count > 0 { sess.unwrap().abort_if_errors(); }
\* the session then holds at least one error, so abort_if_errors aborts
AbortCheck ==
    /\ pc = "check_abort"
    /\ pc' = "done"
    /\ IF err_count > 0
       THEN IF sess = "None"
            THEN /\ outcome' = "unwrap_panic"
                 /\ UNCHANGED sessLog
            ELSE /\ sessLog' = Append(sessLog,
                        [method |-> "abort_if_errors", span |-> "None", msg |-> NoMsg])
                 /\ outcome' = "aborted"
       ELSE /\ outcome' = "returned"
            /\ UNCHANGED sessLog
    /\ UNCHANGED <<sess, s, sp, idx, err_count>>
    /\ UNCHANGED <<depVars, storeVars, extVars>>

\* the call is over (returned, or unwound by bug! / the abort): its frame and
\* the diagnostics it produced are dropped before the next call
CallOver ==
    /\ pc = "done"
    /\ pc' = "idle"
    /\ sess' = "None"
    /\ s' = <<>>
    /\ sp' = "None"
    /\ idx' = 1
    /\ err_count' = 0
    /\ sessLog' = <<>>
    /\ outcome' = "none"
    /\ UNCHANGED <<depVars, storeVars, extVars>>

ValNext ==
    \/ /\ pc = "idle"
       /\ \E vsess \in SessOpts, name \in Names, vsp \in SpanOpts :
              Validate(vsess, name, vsp)
    \/ CheckEmpty
    \/ ScanChar
    \/ ScanEnd
    \/ AbortCheck
    \/ CallOver

StoreInit ==
    /\ storePrev = NoCall
    /\ storeLast = NoCall
    /\ ncalls = 0

\* a caller invokes method q of the DummyCrateStore with argument a
Query(q, a) ==
    /\ ncalls < MaxCalls
    /\ storePrev' = storeLast
    /\ storeLast' = [query |-> q, arg |-> a, result |-> DummyCrateStore(q, a)]
    /\ ncalls' = ncalls + 1
    /\ UNCHANGED <<depVars, valVars, extVars>>

StoreNext == \E q \in Queries : \E a \in QueryArgs(q) : Query(q, a)

CsInit ==
    /\ crateSource = NoCrateSource
    /\ csMade = FALSE
    /\ csClone = NoCrateSource

\* the struct literal CrateSource { dylib: d, rlib: r, rmeta: m }
ConstructCrateSource(d, r, m) ==
    /\ crateSource' = [dylib |-> d, rlib |-> r, rmeta |-> m]
    /\ csMade' = TRUE
    /\ UNCHANGED csClone
    /\ UNCHANGED <<depVars, valVars, storeVars, libVars, loaderVars, statVars>>

\* #[derive(Clone)]: crateSource.clone()
CloneCrateSource ==
    /\ csMade
    /\ csClone' = crateSource
    /\ UNCHANGED <<crateSource, csMade>>
    /\ UNCHANGED <<depVars, valVars, storeVars, libVars, loaderVars, statVars>>

CsNext ==
    \/ \E d, r, m \in OptPaths : ConstructCrateSource(d, r, m)
    \/ CloneCrateSource

LibInit ==
    /\ libSrcs = <<>>
    /\ libIsSome = <<>>
    /\ libOption = <<>>

\* the LibSource values of the used crates become known: they are the inputs
UseLibSources(w) ==
    /\ libSrcs' = w
    /\ libIsSome' = [i \in 1..Len(w) |-> "unset"]
    /\ libOption' = [i \in 1..Len(w) |-> <<"unset">>]
    /\ UNCHANGED <<depVars, valVars, storeVars, csVars, loaderVars, statVars>>

\* libSrcs[i].is_some()
CallIsSome(i) ==
    /\ libIsSome' = [libIsSome EXCEPT ![i] = is_some(libSrcs[i])]
    /\ UNCHANGED <<libSrcs, libOption>>
    /\ UNCHANGED <<depVars, valVars, storeVars, csVars, loaderVars, statVars>>

\* libSrcs[i].option()
CallOption(i) ==
    /\ libOption' = [libOption EXCEPT ![i] = option(libSrcs[i])]
    /\ UNCHANGED <<libSrcs, libIsSome>>
    /\ UNCHANGED <<depVars, valVars, storeVars, csVars, loaderVars, statVars>>

LibNext ==
    \/ /\ libSrcs = <<>>
       /\ \E w \in LibSourcesUpTo(MaxUsed) \ {<<>>} : UseLibSources(w)
    \/ \E i \in 1..Len(libSrcs) : CallIsSome(i)
    \/ \E i \in 1..Len(libSrcs) : CallOption(i)

LoaderInit ==
    /\ unitItems = [u \in Units |-> -1]
    /\ unitPhase = [u \in Units |-> "new"]
    /\ loaderLog = [u \in Units |-> <<>>]

\* the resolver starts on unit u, which has n top-level items
StartUnit(u, n) ==
    /\ unitPhase[u] = "new"
    /\ unitItems' = [unitItems EXCEPT ![u] = n]
    /\ unitPhase' = [unitPhase EXCEPT ![u] = "walking"]
    /\ UNCHANGED loaderLog
    /\ UNCHANGED <<depVars, valVars, storeVars, csVars, libVars, statVars>>

\* postprocess called on a unit whose item tree is still being walked
PostprocessUnitEarly(u) ==
    /\ unitPhase[u] = "walking"
    /\ loaderLog' = [loaderLog EXCEPT ![u] = postprocess(@)]
    /\ unitPhase' = [unitPhase EXCEPT ![u] = "done"]
    /\ UNCHANGED unitItems
    /\ UNCHANGED <<depVars, valVars, storeVars, csVars, libVars, statVars>>

\* the resolver discovers the next item of unit u: process_item
ProcessItemOfUnit(u) ==
    /\ unitPhase[u] = "walking"
    /\ NumCalls(loaderLog[u], "process_item") < unitItems[u]
    /\ loaderLog' = [loaderLog EXCEPT ![u] = process_item(@)]
    /\ UNCHANGED <<unitItems, unitPhase>>
    /\ UNCHANGED <<depVars, valVars, storeVars, csVars, libVars, statVars>>

\* the whole item tree of unit u has been walked: postprocess
PostprocessUnit(u) ==
    /\ unitPhase[u] = "walking"
    /\ NumCalls(loaderLog[u], "process_item") = unitItems[u]
    /\ loaderLog' = [loaderLog EXCEPT ![u] = postprocess(@)]
    /\ unitPhase' = [unitPhase EXCEPT ![u] = "done"]
    /\ UNCHANGED unitItems
    /\ UNCHANGED <<depVars, valVars, storeVars, csVars, libVars, statVars>>

LoaderNext ==
    \/ \E u \in Units, n \in 0..MaxItems : StartUnit(u, n)
    \/ \E u \in Units : ProcessItemOfUnit(u)
    \/ \E u \in Units : PostprocessUnit(u)

\* StatCollector { data: FxHashMap() }
StatInit ==
    /\ data = <<>>
    /\ recorded = <<>>
    /\ statIter = <<>>
    /\ printed = <<>>

\* self.record_with_size(label, node_size) while the MIR is visited
Record(label, node_size) ==
    /\ printed = <<>>
    /\ Len(recorded) < MaxRecords
    /\ data' = record_with_size(data, label, node_size)
    /\ recorded' = Append(recorded, <<label, node_size>>)
    /\ UNCHANGED <<statIter, printed>>
    /\ UNCHANGED <<depVars, valVars, storeVars, csVars, libVars, loaderVars>>

\* collector.print(title), the last step of print_mir_stats
print(title) ==
    /\ printed = <<>>
    /\ \E iter \in IterOrders(data) :
          /\ statIter' = iter
          /\ printed' = ReportLines(title, iter, data)
    /\ UNCHANGED <<data, recorded>>
    /\ UNCHANGED <<depVars, valVars, storeVars, csVars, libVars, loaderVars>>

StatNext ==
    \/ \E label \in Labels, node_size \in NodeSizes : Record(label, node_size)
    \/ \E title \in Titles : print(title)

Init == DepInit /\ ValInit /\ StoreInit /\ CsInit /\ LibInit /\ LoaderInit /\ StatInit

SpecDepKind == Init /\ [][DepNext]_vars

SpecValidate == Init /\ [][ValNext]_vars

SpecDummy == Init /\ [][StoreNext]_vars

SpecCrateSource == Init /\ [][CsNext]_vars

SpecLibSource == Init /\ [][LibNext]_vars

SpecLoader == Init /\ [][LoaderNext]_vars

SpecStats == Init /\ [][StatNext]_vars


(***************************************************************************)
(* Properties                                                              *)
(***************************************************************************)
\* the order of DepKind as documented, lowest first
ClaimedOrder == <<"UnexportedMacrosOnly", "MacrosOnly", "Implicit", "Explicit">>
ClaimedRank(k) == CHOOSE i \in 1..4 : ClaimedOrder[i] = k
ClaimedMax(a, b) == IF ClaimedRank(a) >= ClaimedRank(b) THEN a ELSE b

\* C1: DepKind is ordered UnexportedMacrosOnly < MacrosOnly < Implicit <
\* Explicit, the kind combined from two edges is the maximum of the two under
\* that order (commutative, idempotent, Explicit absorbs), and the effective
\* kind of a crate is the maximum over all edges observed for it.
C1_DepKindMax ==
    /\ \A i, j \in 1..4 :
          (i < j <=> DepKindLt(ClaimedOrder[i], ClaimedOrder[j]))
    /\ \A a, b \in DepKind :
          /\ CombineDepKind(a, b) = ClaimedMax(a, b)
          /\ CombineDepKind(a, b) = CombineDepKind(b, a)
          /\ CombineDepKind(a, a) = a
          /\ CombineDepKind("Explicit", a) = "Explicit"
    /\ \A c \in CrateNums :
          depEdges[c] # <<>> =>
             /\ \E i \in 1..Len(depEdges[c]) : depEdges[c][i] = depKindOf[c]
             /\ \A i \in 1..Len(depEdges[c]) :
                   ClaimedRank(depEdges[c][i]) <= ClaimedRank(depKindOf[c])

\* a crate pulled in as an implicit and as an explicit dependency is explicit
C1_Witness ==
    \E c \in CrateNums :
       /\ Len(depEdges[c]) >= 2
       /\ depEdges[c][1] = "Explicit"
       /\ depEdges[c][2] = "Implicit"
       /\ depKindOf[c] = "Explicit"

\* C2: macros_only() is true exactly for the two lowest kinds
\* (UnexportedMacrosOnly, MacrosOnly), i.e. exactly for kinds below Implicit.
C2_MacrosOnly ==
    /\ \A k \in DepKind :
          /\ macros_only(k) = (k \in {"UnexportedMacrosOnly", "MacrosOnly"})
          /\ macros_only(k) = DepKindLt(k, "Implicit")
    /\ \A c \in CrateNums :
          lastMacrosOnly[c].asked =>
             lastMacrosOnly[c].result = (ClaimedRank(lastMacrosOnly[c].kind) <= 2)

C2_Witness ==
    \E c, d \in CrateNums :
       /\ lastMacrosOnly[c].asked
       /\ lastMacrosOnly[c].kind = "MacrosOnly"
       /\ lastMacrosOnly[c].result = TRUE
       /\ lastMacrosOnly[d].asked
       /\ lastMacrosOnly[d].kind = "Implicit"
       /\ lastMacrosOnly[d].result = FALSE

\* positions of a name holding a character that is neither alphanumeric nor
\* an underscore
Violations(name) ==
    {i \in 1..Len(name) : ~(is_alphanumeric(name[i]) \/ name[i] = 95)}

ValidName(name) == name # <<>> /\ Violations(name) = {}

IsDiag(e) == e.method \in {"span_err", "err"}
Diags == SelectSeq(sessLog, IsDiag)
AbortCalls == {i \in 1..Len(sessLog) : sessLog[i].method = "abort_if_errors"}

\* C3: with a session, a finished call has reported exactly one error for the
\* empty name, exactly k errors for a non-empty name with k invalid
\* characters (none of them the emptiness error), and none exactly when the
\* name is non-empty and made of alphanumerics and underscores only.
C3_ErrorCounts ==
    (pc = "done" /\ sess = "Some") =>
       /\ s = <<>> => (Len(Diags) = 1 /\ Diags[1].msg = EmptyMsg)
       /\ s # <<>> =>
             /\ Len(Diags) = Cardinality(Violations(s))
             /\ \A i \in 1..Len(Diags) : Diags[i].msg # EmptyMsg
       /\ (Len(Diags) = 0) <=> ValidName(s)
       /\ err_count = Len(Diags)

C3_Witness ==
    /\ pc = "done"
    /\ sess = "Some"
    /\ sp = "None"
    /\ s = <<97, 45, 95>>
    /\ Len(Diags) = 1
    /\ Diags[1].msg = InvalidCharMsg(45, s)

\* C4: with a session, every violation is reported against the span argument
\* (span_err with a span, err without), the scan is not cut short by an
\* error, abort_if_errors is called only after the whole name was scanned,
\* and it is called exactly when this call recorded an error, hence never for
\* a valid name.
C4_Batched ==
    sess = "Some" =>
       /\ \A i \in AbortCalls : i = Len(sessLog) /\ pc = "done" /\ idx > Len(s)
       /\ \A i \in 1..Len(Diags) :
             /\ Diags[i].span = sp
             /\ Diags[i].method = (IF sp # "None" THEN "span_err" ELSE "err")
       /\ pc = "scan" =>
             Len(Diags) = (IF s = <<>> THEN 1 ELSE 0)
                          + Cardinality({i \in Violations(s) : i < idx})
       /\ pc = "done" =>
             /\ Len(Diags) = (IF s = <<>> THEN 1 ELSE 0) + Cardinality(Violations(s))
             /\ (AbortCalls # {}) <=> (err_count > 0)
             /\ (AbortCalls # {}) <=> ~ValidName(s)
             /\ Cardinality(AbortCalls) <= 1

C4_Witness ==
    /\ pc = "done"
    /\ sess = "Some"
    /\ sp = "sp1"
    /\ s = <<45, 97, 32>>
    /\ Len(sessLog) = 3
    /\ sessLog[1].method = "span_err"
    /\ sessLog[2].method = "span_err"
    /\ sessLog[3].method = "abort_if_errors"
    /\ outcome = "aborted"

\* C5: without a session a call on an invalid name ends in bug!, with or
\* without a span; a call on a valid name returns, and the missing session is
\* never unwrapped.
C5_NoSession ==
    /\ outcome # "unwrap_panic"
    /\ (pc = "done" /\ sess = "None") =>
          /\ ~ValidName(s) => outcome = "bug"
          /\ ValidName(s) => outcome = "returned"
          /\ sessLog = <<>>

C5_Witness ==
    /\ pc = "done"
    /\ sess = "None"
    /\ sp = "sp2"
    /\ s = <<97, 45>>
    /\ outcome = "bug"

Called == storeLast.query # "none"

\* the collection queries and the boolean / optional queries as the
\* documentation of the dummy store lists them
DocumentedEmpty ==
    {"crates", "used_libraries", "used_link_args", "used_crates",
     "implementations_of_trait", "native_libraries", "lang_items",
     "missing_lang_items", "exported_symbols", "struct_field_names",
     "item_children"}
DocumentedFalse ==
    {"is_dllimport_foreign_item", "is_statically_included_foreign_item",
     "is_compiler_builtins", "is_sanitizer_runtime", "is_profiler_runtime",
     "is_no_builtins"}
DocumentedNone ==
    {"plugin_registrar_fn", "derive_registrar_fn", "extern_mod_stmt_cnum"}

\* C6 as stated: every documented collection query answers with an empty
\* container, every documented boolean / optional query with false / None,
\* and every other query raises the bug failure.
C6_AsDocumented ==
    Called =>
       /\ storeLast.query \in DocumentedEmpty => storeLast.result = EmptyVec
       /\ storeLast.query \in DocumentedFalse => storeLast.result = False
       /\ storeLast.query \in DocumentedNone => storeLast.result = NoneVal
       /\ storeLast.query \notin (DocumentedEmpty \cup DocumentedFalse \cup DocumentedNone)
             => storeLast.result.kind = "bug"

\* the queries the dummy store answers
AnsweredEmpty ==
    {"crates", "used_libraries", "used_link_args", "used_crates",
     "implementations_of_trait"}
AnsweredFalse ==
    {"is_dllimport_foreign_item", "is_statically_included_foreign_item"}
AnsweredNone == {"extern_mod_stmt_cnum"}

\* C6 (amended): crates, used_libraries, used_link_args, used_crates and
\* implementations_of_trait answer with an empty container,
\* is_dllimport_foreign_item and is_statically_included_foreign_item with
\* false, extern_mod_stmt_cnum with None, for every argument and without a
\* failure; every other query raises the bug failure.
C6_DummyAnswers ==
    Called =>
       /\ storeLast.query \in AnsweredEmpty => storeLast.result = EmptyVec
       /\ storeLast.query \in AnsweredFalse => storeLast.result = False
       /\ storeLast.query \in AnsweredNone => storeLast.result = NoneVal
       /\ storeLast.query \notin (AnsweredEmpty \cup AnsweredFalse \cup AnsweredNone)
             => storeLast.result.kind = "bug"

C6_Witness ==
    /\ storePrev.query = "extern_mod_stmt_cnum"
    /\ storePrev.result = NoneVal
    /\ storeLast.query = "lang_items"
    /\ storeLast.result.kind = "bug"

IdentityQueries ==
    {"crate_name", "original_crate_name", "crate_hash", "crate_disambiguator",
     "dep_kind", "panic_strategy", "is_no_builtins", "is_compiler_builtins",
     "is_sanitizer_runtime", "is_profiler_runtime"}

\* C7: on the dummy store, whose crate graph is empty, every identity /
\* linkage query raises the bug failure for every CrateNum; none answers.
C7_IdentityQueriesBug ==
    /\ IdentityQueries \subseteq CrateNumQueries
    /\ (Called /\ storeLast.query \in IdentityQueries) =>
          /\ storeLast.arg \in CrateNumArgs
          /\ storeLast.result.kind = "bug"

C7_Witness ==
    /\ storeLast.query = "crate_hash"
    /\ storeLast.arg = <<MaxCrateNum>>
    /\ storeLast.result = Bug("crate_hash")

\* the same method called twice in a row with the same argument
Repeated ==
    /\ storePrev.query = storeLast.query
    /\ storePrev.arg = storeLast.arg

\* C8: on the dummy store crates() and implementations_of_trait(filter), for
\* filter = None and for every Some(trait_id), answer with an empty sequence
\* whatever was called before, and identically when repeated.
C8_EmptySession ==
    (Called /\ storeLast.query \in {"crates", "implementations_of_trait"}) =>
       /\ storeLast.result = EmptyVec
       /\ Repeated => storePrev.result = storeLast.result

C8_Witness ==
    /\ ncalls >= 3
    /\ storePrev.query = "implementations_of_trait"
    /\ storePrev.arg = <<"Some", 1, 0>>
    /\ storeLast.query = "implementations_of_trait"
    /\ storeLast.arg = <<"Some", 1, 0>>
    /\ storeLast.result = EmptyVec

\* C9 as stated: metadata_encoding_version() answers with a non-empty byte
\* sequence, the same on every call, and never fails.
C9_VersionAnswered ==
    (Called /\ storeLast.query = "metadata_encoding_version") =>
       /\ storeLast.result.kind = "ok"
       /\ storeLast.result.val # ""
       /\ Repeated => storePrev.result = storeLast.result

\* C9 (amended): on the dummy store every call of metadata_encoding_version()
\* raises the bug failure "metadata_encoding_version", identically on every
\* repeated call; it never answers with a byte sequence.
C9_VersionBug ==
    (Called /\ storeLast.query = "metadata_encoding_version") =>
       /\ storeLast.result = Bug("metadata_encoding_version")
       /\ Repeated => storePrev.result = storeLast.result

C9_Witness ==
    /\ storePrev.query = "metadata_encoding_version"
    /\ storeLast.query = "metadata_encoding_version"
    /\ storeLast.result.kind = "bug"

\* C10: on the dummy store used_crates(RequireDynamic) and
\* used_crates(RequireStatic) each answer with an empty result and raise no
\* failure.
C10_UsedCratesEmpty ==
    (Called /\ storeLast.query = "used_crates") =>
       /\ storeLast.arg \in {<<"RequireDynamic">>, <<"RequireStatic">>}
       /\ storeLast.result.kind # "bug"
       /\ storeLast.result = EmptyVec

C10_Witness ==
    /\ storePrev.query = "used_crates"
    /\ storePrev.arg = <<"RequireDynamic">>
    /\ storePrev.result = EmptyVec
    /\ storeLast.query = "used_crates"
    /\ storeLast.arg = <<"RequireStatic">>
    /\ storeLast.result = EmptyVec

\* C11: every CrateSource value that was built has at least one of dylib,
\* rlib, rmeta populated (building one with all three absent is rejected).
C11_OneFieldPresent ==
    csMade =>
       \/ crateSource.dylib # <<"None">>
       \/ crateSource.rlib # <<"None">>
       \/ crateSource.rmeta # <<"None">>

\* C12: option() is Some(p) exactly for LibSource::Some(p), with the same
\* path, and None for MetadataOnly and None, so no path reaches the linker
\* for these two; is_some() is true exactly for LibSource::Some(_) and so
\* agrees with option() being non-empty.
C12_LibSourceOption ==
    \A i \in 1..Len(libSrcs) :
       /\ libOption[i] # <<"unset">> =>
             /\ \A p \in PathBufs :
                   (libOption[i] = <<"Some", p>>) <=> (libSrcs[i] = <<"Some", p>>)
             /\ libSrcs[i] \in {<<"MetadataOnly">>, <<"None">>} => libOption[i] = <<"None">>
             /\ libOption[i] \in {<<"None">>} \cup {<<"Some", p>> : p \in PathBufs}
       /\ libIsSome[i] # "unset" =>
             (libIsSome[i] = "true") <=> (\E p \in PathBufs : libSrcs[i] = <<"Some", p>>)
       /\ (libOption[i] # <<"unset">> /\ libIsSome[i] # "unset") =>
             ((libIsSome[i] = "true") <=> (libOption[i] # <<"None">>))

C12_Witness ==
    /\ Len(libSrcs) = 2
    /\ libSrcs[1] = <<"MetadataOnly">>
    /\ libIsSome[1] = "false"
    /\ libOption[1] = <<"None">>
    /\ libSrcs[2] = <<"Some", "p2">>
    /\ libIsSome[2] = "true"
    /\ libOption[2] = <<"Some", "p2">>

\* C13: for every unit, postprocess is called at most once and is the last
\* call the loader receives for the unit, so every process_item precedes it;
\* a unit that is finished has had exactly one postprocess, after one
\* process_item per item.
C13_ProcessBeforePostprocess ==
    \A u \in Units :
       /\ NumCalls(loaderLog[u], "postprocess") <= 1
       /\ \A i \in 1..Len(loaderLog[u]) :
             loaderLog[u][i] = "postprocess" => i = Len(loaderLog[u])
       /\ NumCalls(loaderLog[u], "postprocess") = 1 =>
             NumCalls(loaderLog[u], "process_item") = unitItems[u]
       /\ unitPhase[u] = "done" <=> NumCalls(loaderLog[u], "postprocess") = 1

C13_Witness ==
    \E u \in Units :
       /\ unitItems[u] = 2
       /\ unitPhase[u] = "done"
       /\ loaderLog[u] = <<"process_item", "process_item", "postprocess">>

\* the number a group sequence written by to_readable_str stands for
RECURSIVE DigitsValue(_)
DigitsValue(ds) ==
    IF ds = <<>> THEN 0
    ELSE 10 * DigitsValue(SubSeq(ds, 1, Len(ds) - 1)) + ds[Len(ds)]
RECURSIVE ReadableValue(_)
ReadableValue(groups) ==
    IF groups = <<>> THEN 0
    ELSE 1000 * ReadableValue(SubSeq(groups, 1, Len(groups) - 1))
         + DigitsValue(groups[Len(groups)])

IsRow(line) == line.kind = "row"
Rows == SelectSeq(printed, IsRow)

\* the calls recorded under label l: their number, sizes and last size
CallsOf(l) == SelectSeq(recorded, LAMBDA c : c[1] = l)
RECURSIVE SumOfSizes(_)
SumOfSizes(calls) ==
    IF calls = <<>> THEN 0
    ELSE SumOfSizes(SubSeq(calls, 1, Len(calls) - 1)) + calls[Len(calls)][2]
SizesDiffer(calls) == \E i, j \in 1..Len(calls) : calls[i][2] # calls[j][2]

\* C14: the report has exactly one row per recorded label, the row shows
\* (label, accumulated size, count, item size) with accumulated size =
\* count * item size, and the rows are in non-decreasing order of accumulated
\* size, whatever record calls came before.
C14_ReportSorted ==
    printed # <<>> =>
       /\ Len(Rows) = Cardinality({recorded[i][1] : i \in 1..Len(recorded)})
       /\ \A l \in {recorded[i][1] : i \in 1..Len(recorded)} :
             \E i \in 1..Len(Rows) : Rows[i].cols[1] = l
       /\ \A i \in 1..Len(Rows) :
             LET l == Rows[i].cols[1]
             IN /\ l \in DOMAIN data
                /\ ReadableValue(Rows[i].cols[3]) = data[l].count
                /\ ReadableValue(Rows[i].cols[4]) = data[l].size
                /\ ReadableValue(Rows[i].cols[2])
                      = ReadableValue(Rows[i].cols[3]) * ReadableValue(Rows[i].cols[4])
       /\ \A i, j \in 1..Len(Rows) :
             i < j => ReadableValue(Rows[i].cols[2]) <= ReadableValue(Rows[j].cols[2])

\* three labels, yielded by the map in descending order of accumulated size
\* and printed in ascending order, the largest being written 1_000
C14_Witness ==
    /\ Len(Rows) = 3
    /\ statIter = <<Rows[3].cols[1], Rows[2].cols[1], Rows[1].cols[1]>>
    /\ ReadableValue(Rows[1].cols[2]) < ReadableValue(Rows[2].cols[2])
    /\ ReadableValue(Rows[2].cols[2]) < ReadableValue(Rows[3].cols[2])
    /\ Rows[3].cols[2] = <<<<1>>, <<0, 0, 0>>>>

\* what record_with_size keeps per label: an entry exactly for the labels
\* recorded, its count the number of calls with the label and its size the
\* node_size of the last of them
EntriesFollowCalls ==
    /\ DOMAIN data = {recorded[i][1] : i \in 1..Len(recorded)}
    /\ \A l \in DOMAIN data :
          /\ data[l].count = Len(CallsOf(l))
          /\ data[l].size = CallsOf(l)[Len(CallsOf(l))][2]

\* C15 as stated: the entries follow the calls as above, and count * size
\* differs from the sum of the recorded sizes whenever the sizes recorded
\* under one label differ.
C15_AlwaysDiffers ==
    /\ EntriesFollowCalls
    /\ \A l \in DOMAIN data :
          SizesDiffer(CallsOf(l)) =>
             data[l].count * data[l].size # SumOfSizes(CallsOf(l))

\* C15 (amended): the entries follow the calls as above (count = number of
\* calls with the label, size = node_size of the last one, no entry for a
\* label never recorded, other labels untouched); count * size equals the sum
\* of the recorded sizes when all sizes under the label are equal, and can
\* differ from it only when they differ.
C15_CountAndLastSize ==
    /\ EntriesFollowCalls
    /\ \A l \in Labels :
          l \notin {recorded[i][1] : i \in 1..Len(recorded)} => l \notin DOMAIN data
    /\ \A l \in DOMAIN data :
          data[l].count * data[l].size # SumOfSizes(CallsOf(l))
             => SizesDiffer(CallsOf(l))

\* sizes 1 then 3 under one label: the entry shows 2 * 3, the sum is 4
C15_Witness ==
    /\ recorded = <<<<"Mir", 1>>, <<"Operand", 2>>, <<"Mir", 3>>>>
    /\ data["Mir"] = [count |-> 2, size |-> 3]
    /\ data["Operand"] = [count |-> 1, size |-> 2]
    /\ "Statement" \notin DOMAIN data
    /\ SumOfSizes(CallsOf("Mir")) = 4

====
